---- MODULE Spec2Model ----
(***************************************************************************)
(* AQS: the history normalizer (read_history) and the relevance ranker     *)
(* (sort_by_similarity) of deprecated/aqs_cli.py.                          *)
(*                                                                         *)
(* A Python str is a sequence of one-character strings; the alphabet is    *)
(* ASCII, so lower() keeps the length.  None is the one-element sequence   *)
(* <<"None">>, which is no character sequence.                             *)
(***************************************************************************)
EXTENDS Integers, Sequences, FiniteSets

VARIABLES
    query,      \* sort_by_similarity: the query argument (a str or None)
    items,      \* sort_by_similarity: the items argument
    result,     \* sort_by_similarity: the returned list
    rpc,        \* sort_by_similarity: "call" before the call, "done" after
    fs,         \* the file system: path -> [status, lines]
    max_lines,  \* read_history: the max_lines argument
    cmds,       \* read_history: the local list cmds
    uniq,       \* read_history: the local list uniq (returned)
    hpc         \* read_history: "read", "window", "dedupe", "done"

vars == <<query, items, result, rpc, fs, max_lines, cmds, uniq, hpc>>
rankVars == <<query, items, result, rpc>>
histVars == <<fs, max_lines, cmds, uniq, hpc>>

(***************************************************************************)
(* Bounds of the model.                                                    *)
(***************************************************************************)
MaxItems == 2       \* longest items list handed to sort_by_similarity
MaxPad == 6         \* padding of the longest ordinary entry
MaxLongItems == 1   \* longest items list of far-match entries
PadNear == 100      \* a match position that brings 500 - pos down to 400
PadFar == 401       \* a match position that brings 500 - pos below 100
MaxFileLines == 2   \* most lines in one history file
MaxWindow == 3      \* largest explicit max_lines argument

\* max_lines=1000 (line 29)
DefaultMaxLines == 1000

None == <<"None">>

(***************************************************************************)
(* str methods used by the program.                                        *)
(***************************************************************************)
LowerChar(c) ==
    CASE c = "L" -> "l"
      [] c = "S" -> "s"
      [] c = "X" -> "x"
      [] OTHER -> c

\* str.lower()
Lower(s) == [i \in 1..Len(s) |-> LowerChar(s[i])]

\* the whitespace str.split() and str.strip() recognise, within the alphabet
IsSpace(c) == c \in {" ", "\t"}

\* s[i:i+len(p)] == p, i counted from 0 as in Python
OccursAt(s, p, i) ==
    /\ i >= 0
    /\ i + Len(p) <= Len(s)
    /\ \A k \in 1..Len(p) : s[i + k] = p[k]

\* a prefix test that asks for equality
StartsWithExact(s, p) == s = p

\* str.startswith(p)
StartsWith(s, p) == OccursAt(s, p, 0)

\* the indices, from 0, where p occurs in s
Matches(s, p) == {i \in 0..(Len(s) - Len(p)) : OccursAt(s, p, i)}

\* p in s
Contains(s, p) == Matches(s, p) # {}

\* str.index(p): the lowest index where p occurs (p in s is known)
Index(s, p) ==
    LET at == Matches(s, p)
    IN  CHOOSE i \in at : \A j \in at : i <= j

\* str.split() with no argument: the maximal runs of non-whitespace, in order
Split(s) ==
    LET starts == {i \in 1..Len(s) : ~IsSpace(s[i]) /\ (i = 1 \/ IsSpace(s[i - 1]))}
        ends   == {j \in 1..Len(s) : ~IsSpace(s[j]) /\ (j = Len(s) \/ IsSpace(s[j + 1]))}
        nth(S, k) == CHOOSE i \in S : Cardinality({j \in S : j < i}) = k - 1
    IN  [k \in 1..Cardinality(starts) |-> SubSeq(s, nth(starts, k), nth(ends, k))]

\* str.strip(): without the leading and trailing whitespace
Strip(s) ==
    LET solid == {i \in 1..Len(s) : ~IsSpace(s[i])}
    IN  IF solid = {} THEN <<>>
        ELSE SubSeq(s, CHOOSE i \in solid : \A j \in solid : i <= j,
                       CHOOSE i \in solid : \A j \in solid : j <= i)

\* s.split(':', 1)[1]: what follows the first colon (s holds one)
AfterFirstColon(s) ==
    LET at == {i \in 1..Len(s) : s[i] = ":"}
    IN  SubSeq(s, (CHOOSE i \in at : \A j \in at : i <= j) + 1, Len(s))

\* x in list
InList(x, l) == \E i \in 1..Len(l) : l[i] = x

Max(S) == CHOOSE x \in S : \A y \in S : y <= x

(***************************************************************************)
(* rapidfuzz fuzz.partial_ratio (line 144).  ratio is the normalised       *)
(* Indel similarity 200 * LCS / (len1 + len2); partial_ratio is its        *)
(* maximum over the windows of the longer string: the prefixes shorter     *)
(* than the needle, the windows of the needle's length and the suffixes.   *)
(* The library returns a float; the model keeps its integer part, which    *)
(* orders the values as the floats do while len1 + len2 is at most 14.     *)
(***************************************************************************)
RECURSIVE LCSLen(_, _, _, _)
LCSLen(a, b, i, j) ==
    IF i > Len(a) \/ j > Len(b) THEN 0
    ELSE IF a[i] = b[j] THEN 1 + LCSLen(a, b, i + 1, j + 1)
    ELSE LET x == LCSLen(a, b, i + 1, j)
             y == LCSLen(a, b, i, j + 1)
         IN  IF x >= y THEN x ELSE y

ratio(s1, s2) ==
    IF Len(s1) + Len(s2) = 0 THEN 100
    ELSE (200 * LCSLen(s1, s2, 1, 1)) \div (Len(s1) + Len(s2))

\* _partial_ratio_impl, len(s1) <= len(s2)
PartialRatioImpl(s1, s2) ==
    LET len1 == Len(s1)
        len2 == Len(s2)
        prefixes == {SubSeq(s2, 1, i) : i \in 1..(len1 - 1)}
        windows  == {SubSeq(s2, i + 1, i + len1) : i \in 0..(len2 - len1 - 1)}
        suffixes == {SubSeq(s2, i + 1, len2) : i \in (len2 - len1)..(len2 - 1)}
    IN  Max({0} \cup {ratio(s1, w) : w \in prefixes \cup windows \cup suffixes})

partial_ratio(s1, s2) ==
    IF Len(s1) = 0 /\ Len(s2) = 0 THEN 100
    ELSE IF Len(s1) = 0 \/ Len(s2) = 0 THEN 0
    ELSE LET shorter == IF Len(s1) <= Len(s2) THEN s1 ELSE s2
             longer  == IF Len(s1) <= Len(s2) THEN s2 ELSE s1
             res == PartialRatioImpl(shorter, longer)
         IN  IF res # 100 /\ Len(s1) = Len(s2)
             THEN Max({res, PartialRatioImpl(longer, shorter)})
             ELSE res

(***************************************************************************)
(* sort_by_similarity (lines 90-150).                                      *)
(***************************************************************************)
\* line 105 without the lower(): the item is matched as typed
ItemLowerCased(item) == item

\* item_lower (line 105)
ItemLower(item) == Lower(item)

\* score_item (lines 104-145): <<score, tiebreak>>
score_item(query_lower, item) ==
    LET item_lower == ItemLower(item)
        words == Split(item_lower)
        first_word == IF words # <<>> THEN words[1] ELSE <<>>
    IN  IF item_lower = query_lower THEN <<1000, 0>>
        ELSE IF \/ StartsWith(item_lower, query_lower \o <<" ">>)
                \/ StartsWith(item_lower, query_lower \o <<"\t">>)
             THEN <<900, Len(item)>>
        ELSE IF first_word = query_lower THEN <<850, Len(item)>>
        ELSE IF StartsWith(first_word, query_lower) THEN <<800, Len(item)>>
        ELSE IF InList(query_lower, words) THEN <<700, Len(item)>>
        ELSE IF \/ Contains(item_lower, <<" ">> \o query_lower)
                \/ Contains(item_lower, <<"/">> \o query_lower)
             THEN <<600, Len(item)>>
        ELSE IF Contains(item_lower, query_lower)
             THEN <<500 - Index(item_lower, query_lower), Len(item)>>
        ELSE <<partial_ratio(query_lower, item_lower), Len(item)>>

\* a key that sorts the scores ascending
SortKeyAscending(sc) == <<sc[1], sc[2]>>

\* the sort key of line 149: (-score, tiebreak)
SortKey(sc) == <<0 - sc[1], sc[2]>>

\* tuple comparison a < b
KeyLess(a, b) == a[1] < b[1] \/ (a[1] = b[1] /\ a[2] < b[2])

\* an insertion that keeps one copy of an entry
InsertUnique(sorted, e) ==
    IF \E j \in 1..Len(sorted) : sorted[j][1] = e[1] THEN sorted
    ELSE LET later == {j \in 1..Len(sorted) : KeyLess(SortKey(e[2]), SortKey(sorted[j][2]))}
             at == IF later = {} THEN Len(sorted) + 1
                   ELSE CHOOSE j \in later : \A k \in later : j <= k
         IN  SubSeq(sorted, 1, at - 1) \o <<e>> \o SubSeq(sorted, at, Len(sorted))

\* an insertion that puts an element before the elements of equal key
InsertBeforeEqual(sorted, e) ==
    LET later == {j \in 1..Len(sorted) : ~KeyLess(SortKey(sorted[j][2]), SortKey(e[2]))}
        at == IF later = {} THEN Len(sorted) + 1
              ELSE CHOOSE j \in later : \A k \in later : j <= k
    IN  SubSeq(sorted, 1, at - 1) \o <<e>> \o SubSeq(sorted, at, Len(sorted))

\* list.sort(key=...) is stable: an element goes after every element whose
\* key is not greater than its own
InsertByKey(sorted, e) ==
    LET later == {j \in 1..Len(sorted) : KeyLess(SortKey(e[2]), SortKey(sorted[j][2]))}
        at == IF later = {} THEN Len(sorted) + 1
              ELSE CHOOSE j \in later : \A k \in later : j <= k
    IN  SubSeq(sorted, 1, at - 1) \o <<e>> \o SubSeq(sorted, at, Len(sorted))

RECURSIVE SortScored(_, _)
SortScored(scored, n) ==
    IF n = 0 THEN <<>> ELSE InsertByKey(SortScored(scored, n - 1), scored[n])

\* a test that takes only the empty string for "no query"
FalsyEmptyOnly(q) == q = <<>>

\* not query (line 99)
Falsy(q) == q = None \/ q = <<>>

\* query_lower (line 102)
QueryLower(q) == Lower(q)

sort_by_similarity(q, its) ==
    IF Falsy(q) THEN its
    ELSE LET query_lower == QueryLower(q)
             scored == [i \in 1..Len(its) |-> <<its[i], score_item(query_lower, its[i])>>]
             sorted == SortScored(scored, Len(scored))
         IN  [i \in 1..Len(sorted) |-> sorted[i][1]]

(***************************************************************************)
(* read_history (lines 29-66).  A file is [status, lines]: status "ok",    *)
(* "missing" (p.exists() is false) or "unreadable" (read_text raises);     *)
(* lines is text.splitlines().                                             *)
(***************************************************************************)
FishMarker == <<"-", " ", "c", "m", "d", ":">>

\* 'fish_history' in str(p) (line 39)
IsFish(p) == p = "fish_history"

\* a read that does not notice that read_text failed
ReadTextUnguarded(f, p) == f[p].lines

\* lines 33-38: the lines of the file, none when it is missing or unreadable
ReadText(f, p) == IF f[p].status = "ok" THEN f[p].lines ELSE <<>>

\* lines 41-46: the commands of the fish lines up to line n
RECURSIVE FishCmds(_, _)
FishCmds(lines, n) ==
    IF n = 0 THEN <<>>
    ELSE LET line == Strip(lines[n])
             cmd == Strip(AfterFirstColon(line))
         IN  IF StartsWith(line, FishMarker) /\ cmd # <<>>
             THEN Append(FishCmds(lines, n - 1), cmd)
             ELSE FishCmds(lines, n - 1)

\* lines 48-52: the non-empty lines up to line n
RECURSIVE PlainCmds(_, _)
PlainCmds(lines, n) ==
    IF n = 0 THEN <<>>
    ELSE IF lines[n] = <<>> THEN PlainCmds(lines, n - 1)
    ELSE Append(PlainCmds(lines, n - 1), lines[n])

\* lines 30-52: the commands of the first n paths, in the order of the paths
RECURSIVE ExtractAll(_, _, _)
ExtractAll(paths, f, n) ==
    IF n = 0 THEN <<>>
    ELSE LET lines == ReadText(f, paths[n])
         IN  ExtractAll(paths, f, n - 1) \o
                 (IF IsFish(paths[n]) THEN FishCmds(lines, Len(lines))
                  ELSE PlainCmds(lines, Len(lines)))

\* l[-n:] for n >= 0; -0 is 0, so l[-0:] is all of l
TailSlice(l, n) == IF n = 0 THEN l ELSE SubSeq(l, Len(l) - n + 1, Len(l))

\* lines 54-55
Window(l, n) == IF Len(l) > n THEN TailSlice(l, n) ELSE l

\* a dedupe that walks the list from its start
RECURSIVE DedupeFromStart(_, _, _, _)
DedupeFromStart(l, i, seen, acc) ==
    IF i > Len(l) THEN acc
    ELSE IF l[i] \in seen THEN DedupeFromStart(l, i + 1, seen, acc)
    ELSE DedupeFromStart(l, i + 1, seen \cup {l[i]}, Append(acc, l[i]))

DedupeForward(l) == DedupeFromStart(l, 1, {}, <<>>)

\* lines 58-64: the loop over reversed(cmds), at index i of cmds
RECURSIVE DedupeFrom(_, _, _, _)
DedupeFrom(l, i, seen, acc) ==
    IF i = 0 THEN acc
    ELSE IF l[i] \in seen THEN DedupeFrom(l, i - 1, seen, acc)
    ELSE DedupeFrom(l, i - 1, seen \cup {l[i]}, Append(acc, l[i]))

Dedupe(l) == DedupeFrom(l, Len(l), {}, <<>>)

read_history(paths, f, n) == Dedupe(Window(ExtractAll(paths, f, Len(paths)), n))

(***************************************************************************)
(* Inputs of sort_by_similarity: the queries and the entries they meet.    *)
(***************************************************************************)
Pad(n) == [i \in 1..n |-> "x"]

Queries ==
    { None, <<>>,
      <<"l", "s">>, <<"L", "S">>, <<"L", "s">>,
      <<"s">>, <<"l", " ", "s">>, <<" ">> }

ItemPool ==
    { <<>>,
      <<"l", "s">>, <<"L", "S">>,
      <<"l", "s", " ", "x">>, <<"L", "s", " ", "x">>, <<"l", "s", "\t", "x">>,
      <<"l", "s", " ", "x", "x">>, <<"l", "s", " ">> \o Pad(MaxPad),
      <<"l", "s", "x">>,
      <<" ", "l", "s">>,
      <<"x", " ", "l", "s">>, <<"x", " ", "L", "S">>,
      <<"x", " ", "l", "s", "x">>, <<"x", "/", "l", "s">>, <<"/", "l", "s">>,
      <<"x", "l", "s">>, <<"x", "x", "l", "s">>,
      <<"x">>, <<"l">>, <<"s">>, <<"s", "l">>, <<"x", "l">>,
      <<"l", " ", "s">>, <<"l", " ", "s", " ", "x">>, <<"x", " ", "l", " ", "s">> }

\* entries in which the query occurs far from the start
LongPool ==
    { Pad(n) \o c :
        n \in {0, PadNear - 1, PadNear, PadFar},
        c \in { <<"l", "s">>, <<"l", "s", " ", "x">>, <<" ", "l", "s">>,
                <<"/", "l", "s">>, <<"l">> } }

ItemLists == UNION {[1..n -> ItemPool] : n \in 0..MaxItems}

LongLists == UNION {[1..n -> LongPool] : n \in 0..MaxLongItems}

(***************************************************************************)
(* Inputs of read_history are set in HistInit; here they stay idle.        *)
(***************************************************************************)
HistIdle ==
    /\ fs = <<>>
    /\ max_lines = 0
    /\ cmds = <<>>
    /\ uniq = <<>>
    /\ hpc = "idle"

RankInit ==
    /\ query \in Queries
    /\ items \in ItemLists
    /\ result = <<>>
    /\ rpc = "call"
    /\ HistIdle

\* the call sort_by_similarity(query, items) (line 198, and the tests)
SortBySimilarity ==
    /\ rpc = "call"
    /\ result' = sort_by_similarity(query, items)
    /\ rpc' = "done"
    /\ UNCHANGED <<query, items>>
    /\ UNCHANGED histVars

RankNext == SortBySimilarity

SpecRank == RankInit /\ [][RankNext]_vars

\* the same call on entries in which the query occurs far from the start
LongInit ==
    /\ query \in Queries
    /\ items \in LongLists
    /\ result = <<>>
    /\ rpc = "call"
    /\ HistIdle

SpecLong == LongInit /\ [][RankNext]_vars

(***************************************************************************)
(* Inputs of read_history: a plain history file and a fish history file,   *)
(* each present, missing or unreadable, and the max_lines argument.        *)
(***************************************************************************)
Paths == <<".bash_history", "fish_history">>

FishLine(c) == FishMarker \o <<" ">> \o c

PlainLines == { <<>>, <<"a">>, <<"b">> }

FishLines ==
    { FishLine(<<"a">>),
      <<" ", " ">> \o FishLine(<<"c", " ">>),
      FishLine(<<>>),
      <<"w", "h", "e", "n", ":", " ", "1">> }

LinesOf(p) == IF IsFish(p) THEN FishLines ELSE PlainLines

Texts(p) == UNION {[1..n -> LinesOf(p)] : n \in 0..MaxFileLines}

Files(p) ==
    {[status |-> "missing", lines |-> <<>>]} \cup
    {[status |-> st, lines |-> t] : st \in {"ok", "unreadable"}, t \in Texts(p)}

PathSet == {Paths[i] : i \in 1..Len(Paths)}

RankIdle ==
    /\ query = None
    /\ items = <<>>
    /\ result = <<>>
    /\ rpc = "idle"

HistInit ==
    /\ fs \in {f \in [PathSet -> UNION {Files(p) : p \in PathSet}] :
                 \A p \in PathSet : f[p] \in Files(p)}
    /\ max_lines \in (0..MaxWindow) \cup {DefaultMaxLines}
    /\ cmds = <<>>
    /\ uniq = <<>>
    /\ hpc = "read"
    /\ RankIdle

\* lines 30-52: the loop over paths
ReadPaths ==
    /\ hpc = "read"
    /\ cmds' = ExtractAll(Paths, fs, Len(Paths))
    /\ hpc' = "window"
    /\ UNCHANGED <<fs, max_lines, uniq>>
    /\ UNCHANGED rankVars

\* lines 54-55: keep the tail
TakeTail ==
    /\ hpc = "window"
    /\ cmds' = Window(cmds, max_lines)
    /\ hpc' = "dedupe"
    /\ UNCHANGED <<fs, max_lines, uniq>>
    /\ UNCHANGED rankVars

\* lines 58-66: dedupe and return
DedupeAndReturn ==
    /\ hpc = "dedupe"
    /\ uniq' = Dedupe(cmds)
    /\ hpc' = "done"
    /\ UNCHANGED <<fs, max_lines, cmds>>
    /\ UNCHANGED rankVars

HistNext == ReadPaths \/ TakeTail \/ DedupeAndReturn

SpecHist == HistInit /\ [][HistNext]_vars

\* the sequence extracted from the sources, before the window
Raw == ExtractAll(Paths, fs, Len(Paths))

\* the last n elements of l, all of l when it has no more than n
LastN(l, n) == IF Len(l) > n THEN SubSeq(l, Len(l) - n + 1, Len(l)) ELSE l

\* the call has returned with a query that is neither empty nor None
Ranked == rpc = "done" /\ ~Falsy(query)

Score(e) == score_item(Lower(query), e)

\* the entry equals the query case-insensitively
IsExact(e) == Lower(e) = Lower(query)

Count(l, x) == Cardinality({i \in 1..Len(l) : l[i] = x})

Range(l) == {l[i] : i \in 1..Len(l)}

(***************************************************************************)
(* C1: for a non-empty query the output is a permutation of items: the     *)
(* same length and every string as many times as in items.                 *)
(***************************************************************************)
C1_Permutation ==
    Ranked =>
        /\ Len(result) = Len(items)
        /\ \A x \in Range(items) \cup Range(result) : Count(result, x) = Count(items, x)

C1_Witness ==
    /\ Ranked
    /\ Len(items) >= 2
    /\ items[1] = items[2]
    /\ Score(items[1])[1] < 100
    /\ result = items

(***************************************************************************)
(* C2: the output is ordered by descending tier, then by ascending         *)
(* tiebreak (the entry's length), and the entries of equal tier and        *)
(* tiebreak stand in the order they had in items.                          *)
(***************************************************************************)
\* the scores of the first n entries of l
RECURSIVE ScoresOf(_, _)
ScoresOf(l, n) == IF n = 0 THEN <<>> ELSE Append(ScoresOf(l, n - 1), Score(l[n]))

\* the entries of l whose score is k, in the order they have in l
SameKey(l, sc, k) ==
    LET idx == {i \in 1..Len(l) : sc[i] = k}
        nth(n) == CHOOSE i \in idx : Cardinality({j \in idx : j < i}) = n - 1
    IN  [n \in 1..Cardinality(idx) |-> l[nth(n)]]

C2_OrderedStable ==
    Ranked =>
        LET rs == ScoresOf(result, Len(result))
            is == ScoresOf(items, Len(items))
        IN  /\ \A i, j \in 1..Len(result) :
                  i < j =>
                     \/ rs[i][1] > rs[j][1]
                     \/ (rs[i][1] = rs[j][1] /\ rs[i][2] <= rs[j][2])
            /\ \A i \in 1..Len(result) :
                  rs[i][2] = IF IsExact(result[i]) THEN 0 ELSE Len(result[i])
            /\ \A i, j \in 1..Len(result) :
                  (i < j /\ rs[i][1] = rs[j][1]) => Len(result[i]) <= Len(result[j])
            /\ \A n \in 1..Len(items) :
                  SameKey(result, rs, is[n]) = SameKey(items, is, is[n])

C2_Witness ==
    /\ Ranked
    /\ Len(items) >= 2
    /\ Score(items[1]) = Score(items[2])
    /\ items[1] # items[2]
    /\ Score(items[1])[1] = 900
    /\ result = items

(***************************************************************************)
(* C6: every entry that equals the query case-insensitively stands before  *)
(* every entry that does not; if there is one, the first element of the    *)
(* output equals the query case-insensitively.                             *)
(***************************************************************************)
C6_ExactFirst ==
    Ranked =>
        /\ \A i, j \in 1..Len(result) :
              IsExact(result[i]) /\ ~IsExact(result[j]) => i < j
        /\ (\E i \in 1..Len(result) : IsExact(result[i])) => IsExact(result[1])

C6_Witness ==
    /\ Ranked
    /\ Len(items) >= 2
    /\ ~IsExact(items[1])
    /\ IsExact(items[2])
    /\ Score(items[1])[1] = 900
    /\ result[1] = items[2]

(***************************************************************************)
(* C7: every entry whose first whitespace-delimited token starts with the  *)
(* query (case-insensitively) stands before every entry in which the query *)
(* only equals a later token, only occurs as a substring or does not occur.*)
(***************************************************************************)
FirstTokenStarts(e) ==
    LET toks == Split(Lower(e))
    IN  toks # <<>> /\ OccursAt(toks[1], Lower(query), 0)

C7_TokenBeatsSubstring ==
    Ranked =>
        \A i, j \in 1..Len(result) :
            FirstTokenStarts(result[i]) /\ ~FirstTokenStarts(result[j]) => i < j

C7_Witness ==
    /\ Ranked
    /\ Len(items) >= 2
    /\ ~FirstTokenStarts(items[1])
    /\ Contains(Lower(items[1]), Lower(query))
    /\ FirstTokenStarts(items[2])
    /\ Score(items[2])[1] = 800
    /\ result[1] = items[2]

(***************************************************************************)
(* C8: with the empty string or None as the query the output is items,     *)
(* the same elements in the same order.                                    *)
(***************************************************************************)
C8_IdentityOnEmptyQuery ==
    (rpc = "done" /\ (query = None \/ query = <<>>)) => result = items

C8_Witness ==
    /\ rpc = "done"
    /\ query = None
    /\ Len(items) >= 2
    /\ sort_by_similarity(<<"l", "s">>, items) # items
    /\ result = items

(***************************************************************************)
(* C9: the ranking depends on the query and the entries only through their *)
(* lower-cased copies: queries that differ only in letter case give the    *)
(* same order, and an entry gets the tier of its lower-cased copy.         *)
(***************************************************************************)
C9_CaseInsensitive ==
    Ranked =>
        /\ \A q2 \in Queries :
              (~Falsy(q2) /\ Lower(q2) = Lower(query)) =>
                  sort_by_similarity(q2, items) = result
        /\ \A e \in Range(items) :
              score_item(QueryLower(query), e)[1] =
                  score_item(QueryLower(query), Lower(e))[1]

C9_Witness ==
    /\ Ranked
    /\ query = <<"L", "S">>
    /\ Len(items) >= 2
    /\ items[1] = <<"x", " ", "l", "s">>
    /\ items[2] = <<"L", "s", " ", "x">>
    /\ result[1] = <<"L", "s", " ", "x">>

(***************************************************************************)
(* C3: an entry scored by the general-substring rule (the query occurs in  *)
(* it and no higher rule matches) has a tier strictly between 400 and 600, *)
(* whatever the position of the first occurrence.                          *)
(***************************************************************************)
GeneralSubstring(e) ==
    LET ql == Lower(query)
        il == Lower(e)
        toks == Split(il)
    IN  /\ Contains(il, ql)
        /\ il # ql
        /\ ~OccursAt(il, ql \o <<" ">>, 0)
        /\ ~OccursAt(il, ql \o <<"\t">>, 0)
        /\ (toks = <<>> \/ ~OccursAt(toks[1], ql, 0))
        /\ ~InList(ql, toks)
        /\ ~Contains(il, <<" ">> \o ql)
        /\ ~Contains(il, <<"/">> \o ql)

C3_SubstringTierBounded ==
    Ranked =>
        \A e \in Range(items) :
            GeneralSubstring(e) => (400 < Score(e)[1] /\ Score(e)[1] < 600)

(***************************************************************************)
(* C4: when the extracted sequence is longer than max_lines, read_history  *)
(* dedupes only its last max_lines elements: the result holds exactly the  *)
(* entries of that window, none that occurs only before it.                *)
(***************************************************************************)
C4_WindowBeforeDedup ==
    hpc = "done" =>
        /\ cmds = LastN(Raw, max_lines)
        /\ Range(uniq) = Range(LastN(Raw, max_lines))

(***************************************************************************)
(* C5: the returned list has no two identical entries, holds exactly the   *)
(* distinct entries of the windowed sequence and lists them newest first:  *)
(* in descending order of the index of their last occurrence in it.        *)
(***************************************************************************)
LastIndex(l, x) ==
    LET at == {i \in 1..Len(l) : l[i] = x}
    IN  CHOOSE i \in at : \A j \in at : j <= i

C5_DedupRecency ==
    hpc = "done" =>
        /\ \A i, j \in 1..Len(uniq) : i # j => uniq[i] # uniq[j]
        /\ Range(uniq) = Range(cmds)
        /\ \A i, j \in 1..Len(uniq) :
              i < j => LastIndex(cmds, uniq[i]) > LastIndex(cmds, uniq[j])

C5_Witness ==
    /\ hpc = "done"
    /\ cmds = << <<"a">>, <<"b">>, <<"a">>, <<"c">> >>
    /\ uniq = << <<"c">>, <<"a">>, <<"b">> >>

(***************************************************************************)
(* C10: a missing or unreadable source contributes no entries: the result  *)
(* is the one obtained from the remaining sources alone, and it is empty   *)
(* when every source is missing, unreadable or empty.                      *)
(***************************************************************************)
Present(p) == fs[p].status = "ok"

C10_MissingSkipped ==
    hpc = "done" =>
        /\ uniq = read_history(SelectSeq(Paths, Present), fs, max_lines)
        /\ (\A p \in PathSet : ~Present(p) \/ fs[p].lines = <<>>) => uniq = <<>>

C10_Witness ==
    /\ hpc = "done"
    /\ fs[".bash_history"].status = "unreadable"
    /\ fs[".bash_history"].lines = << <<"a">>, <<"b">> >>
    /\ fs["fish_history"].status = "ok"
    /\ max_lines = DefaultMaxLines
    /\ uniq = << <<"c">>, <<"a">> >>

====
